---- MODULE Spec2Model ----
(***************************************************************************)
(* finddup: duplicate files and directories by content (src/finddup.py).   *)
(*                                                                         *)
(* Two specifications share the state:                                     *)
(*   SpecCmp  compare_file_group on one size bucket, one action per pass   *)
(*            of its while loop, followed by create_file_ids;              *)
(*   Spec     the pipeline of main(): hash_files_by_size, compare_files    *)
(*            (one bucket per step), check_files_for_changes,              *)
(*            create_file_ids2, recurse_analyze_filetree2.                 *)
(*                                                                         *)
(* Paths are sequences of names below master_root (<<>> is master_root).   *)
(* Python strings that are compared or sorted (directory signatures) are   *)
(* sequences of character codes.  Lists are sequences, dicts are           *)
(* functions; a dict whose iteration order matters carries its key order.  *)
(***************************************************************************)
EXTENDS Integers, Sequences, FiniteSets, TLC

VARIABLES
    fs,              \* the file system: path -> entry (never assigned by the program)
    cmp,             \* the frame of compare_file_group (SpecCmp)
    pc,              \* position of main()
    file_size_hash,  \* DupFinder.file_size_hash: sequence of [size, files], in key order
    filetree,        \* DupFinder.filetree: [keys: file paths in insertion order, id: path -> id]
    filemodtimes,    \* DupFinder.filemodtimes: sequence of <<path, mtime>>, in key order
    fileblocks,      \* DupFinder.fileblocks: path -> blocks
    unproc_files,    \* DupFinder.unproc_files: sequence of <<path, tag>>
    dup_groups,      \* DupFinder.dup_groups: sequence of [blocks, members]
    unique_files,    \* DupFinder.unique_files
    unique_dirs,     \* DupFinder.unique_dirs
    unknown_dirs,    \* DupFinder.unknown_dirs
    bucket_i,        \* compare_files: number of buckets already compared
    argv,            \* args.searchpaths: the search paths as given
    dup_find,        \* DupFinder.searchpaths and DupFinder.master_root
    status,          \* the exit status of the process; -1 while it runs
    dirdict          \* recurse_analyze_filetree: sequence of [signature, directories] (SpecSig)

mainvars == <<argv, dup_find, status>>

vars == <<fs, cmp, pc, file_size_hash, filetree, filemodtimes, fileblocks,
          unproc_files, dup_groups, unique_files, unique_dirs, unknown_dirs, bucket_i,
          argv, dup_find, status, dirdict>>

pipevars == <<pc, file_size_hash, filemodtimes, unproc_files, dup_groups,
              unique_files, unique_dirs, unknown_dirs, bucket_i, mainvars>>

(***************************************************************************)
(* Bounds of the model.                                                    *)
(***************************************************************************)
\* SpecCmp: members of the bucket
MaxFiles == 4
\* SpecCmp: byte length of the bucket's files
MaxLen == 3
\* Spec: byte length of the files of the tree
MaxTreeLen == 1
\* SpecCmp: members of the bucket whose open or read fails
MaxFailing == 2
\* Spec: files of the tree that change or fail to read during the run
MaxFaulty == 1
\* SpecPaths: search paths given on the command line
MaxPaths == 3

(***************************************************************************)
(* Program constants, scaled down so that every branch is met by files of  *)
(* a few bytes: MEM_TO_USE is 1 GiB, MAX_FILES_OPEN 200, the first chunk   *)
(* 256 bytes and the smallest chunk 5 bytes in the source.                 *)
(***************************************************************************)
MEM_TO_USE == 3
MAX_FILES_OPEN == 4
FIRST_CHUNK == 2
MIN_CHUNK == 1

IGNORE_FILES == {".picasa.ini", ".DS_Store", "Thumbs.db", " Icon\r", "Icon\r"}

(***************************************************************************)
(* Sequences.                                                              *)
(***************************************************************************)
Range(s) == {s[i] : i \in DOMAIN s}

MinOf(a, b) == IF a < b THEN a ELSE b

MaxIn(S) == CHOOSE x \in S : \A y \in S : y <= x

\* [s[i] for i in idxs]
Pick(s, idxs) == [k \in 1..Len(idxs) |-> s[idxs[k]]]

\* [x for (i, x) in enumerate(s) if i not in invalid]
RECURSIVE DropIdx(_, _, _)
DropIdx(s, invalid, i) ==
    IF i > Len(s) THEN <<>>
    ELSE (IF i \in invalid THEN <<>> ELSE <<s[i]>>) \o DropIdx(s, invalid, i + 1)

\* every sequence over S of length exactly n
SeqsOfLen(S, n) == [1..n -> S]

(***************************************************************************)
(* The file system.  An entry is                                           *)
(*   [mode    : "reg" | "lnk" | "fifo" | "sock",                           *)
(*    stat_ok : os.stat succeeds,                                          *)
(*    data    : the file's bytes,                                          *)
(*    touched : the modification time moves while the program runs,        *)
(*    fails   : open or read raises OSError from pass failAt on            *)
(*              (failAt = 0: already the first open fails)]                *)
(***************************************************************************)
Bytes == {0, 1}

Data(f) == fs[f].data

\* open(f) or f.read() raises OSError during pass n (n = 0: the opens before the loop)
ReadFails(f, n) == fs[f].fails /\ fs[f].failAt <= n

\* st_blocks with one byte to the block
StBlocks(e) == Len(e.data)

\* st_mtime: 1 when the catalog is made; a touched file shows 2 afterwards
StMtime(e, late) == IF late /\ e.touched THEN 2 ELSE 1

Basename(p) == p[Len(p)]

Dirname(p) == SubSeq(p, 1, Len(p) - 1)

(***************************************************************************)
(* check_stat_file: (this_size, this_mod, this_blocks, extra_info).        *)
(* late = FALSE for the stat of the catalog, TRUE for the re-stat of       *)
(* check_files_for_changes.                                                *)
(***************************************************************************)
check_stat_file(filepath, late) ==
    LET e == fs[filepath]
        this_blocks == StBlocks(e)
    IN  IF ~e.stat_ok
        THEN [size |-> -1, mod |-> -1, blocks |-> -1, info |-> <<"OSError">>]
        ELSE IF Basename(filepath) \in IGNORE_FILES
        THEN [size |-> -1, mod |-> -1, blocks |-> this_blocks, info |-> <<"ignore_files">>]
        ELSE IF e.mode = "lnk"
        THEN [size |-> -1, mod |-> -1, blocks |-> this_blocks, info |-> <<"symlink">>]
        ELSE IF e.mode = "fifo"
        THEN [size |-> -1, mod |-> -1, blocks |-> -1, info |-> <<"fifo">>]
        ELSE IF e.mode = "sock"
        THEN [size |-> -1, mod |-> -1, blocks |-> -1, info |-> <<"socket">>]
        ELSE [size |-> Len(e.data), mod |-> StMtime(e, late),
              blocks |-> this_blocks, info |-> <<>>]

(***************************************************************************)
(* matching_array_groups: groups of indices of equal data chunks.          *)
(***************************************************************************)
\* mutant: only the first chunk is a pivot; a chunk that differs from it is
\* taken to match no other
GroupIndices_firstPivot(datachunks_list, ungrp_chunk_indicies) ==
    IF ungrp_chunk_indicies = <<>> THEN <<>>
    ELSE LET test_idx == ungrp_chunk_indicies[1]
             matching_indicies ==
                 SelectSeq(ungrp_chunk_indicies,
                           LAMBDA i : datachunks_list[i] = datachunks_list[test_idx])
             rest == SelectSeq(ungrp_chunk_indicies,
                               LAMBDA x : x \notin Range(matching_indicies))
         IN  <<matching_indicies>> \o [k \in 1..Len(rest) |-> <<rest[k]>>]

RECURSIVE GroupIndices(_, _)
\* the while loop: the first ungrouped chunk is the pivot
GroupIndices(datachunks_list, ungrp_chunk_indicies) ==
    IF ungrp_chunk_indicies = <<>> THEN <<>>
    ELSE LET test_idx == ungrp_chunk_indicies[1]
             matching_indicies ==
                 SelectSeq(ungrp_chunk_indicies,
                           LAMBDA i : datachunks_list[i] = datachunks_list[test_idx])
             rest == SelectSeq(ungrp_chunk_indicies,
                               LAMBDA x : x \notin Range(matching_indicies))
         IN  <<matching_indicies>> \o GroupIndices(datachunks_list, rest)

\* mutant: a chunk that matches no other is kept as a group of one
matching_array_groups_noSingles(datachunks_list) ==
    [match_idx_groups |-> GroupIndices(datachunks_list, [i \in 1..Len(datachunks_list) |-> i]),
     single_idx_groups |-> <<>>]

matching_array_groups(datachunks_list) ==
    LET all == GroupIndices(datachunks_list, [i \in 1..Len(datachunks_list) |-> i])
        ones == SelectSeq(all, LAMBDA x : Len(x) = 1)
        single_idx_groups == [k \in 1..Len(ones) |-> ones[k][1]]
    IN  [match_idx_groups |->
             SelectSeq(all, LAMBDA x : x[1] \notin Range(single_idx_groups)),
         single_idx_groups |-> single_idx_groups]

(***************************************************************************)
(* read_filehandle_list and read_filelist.                                 *)
(***************************************************************************)
\* fh.read(amt) at position pos of data d
Chunk(d, pos, amt) == SubSeq(d, pos + 1, MinOf(pos + amt, Len(d)))

\* mutant: the size read is taken from the first entry before the invalid
\* entries are dropped
ReadResult_firstSize(group, filedata_list, filedata_size_list) ==
    LET invalid_idxs == {i \in 1..Len(filedata_size_list) : filedata_size_list[i] = -1}
        bad == SelectSeq(group, LAMBDA f : f \notin Range(DropIdx(group, invalid_idxs, 1)))
    IN  [filedata_list   |-> DropIdx(filedata_list, invalid_idxs, 1),
         group_new       |-> DropIdx(group, invalid_idxs, 1),
         unproc_files    |-> [k \in 1..Len(bad) |-> <<bad[k], "OSError">>],
         file_bytes_read |-> IF filedata_size_list # <<>> THEN filedata_size_list[1] ELSE 0]

\* mutant: the unreadable files are reported and stay in the group
ReadResult_kept(group, filedata_list, filedata_size_list) ==
    LET bad == {i \in 1..Len(filedata_size_list) : filedata_size_list[i] = -1}
        sizes == DropIdx(filedata_size_list, bad, 1)
    IN  [filedata_list   |-> filedata_list,
         group_new       |-> group,
         unproc_files    |-> [k \in 1..Len(DropIdx(group, (1..Len(group)) \ bad, 1)) |->
                                 <<DropIdx(group, (1..Len(group)) \ bad, 1)[k], "OSError">>],
         file_bytes_read |-> IF sizes # <<>> THEN sizes[1] ELSE 0]

\* the tail shared by both readers: drop the invalid entries (size -1)
ReadResult(group, filedata_list, filedata_size_list) ==
    LET invalid_idxs == {i \in 1..Len(filedata_size_list) : filedata_size_list[i] = -1}
        sizes == DropIdx(filedata_size_list, invalid_idxs, 1)
        bad == SelectSeq(group, LAMBDA f : f \notin Range(DropIdx(group, invalid_idxs, 1)))
    IN  [filedata_list   |-> DropIdx(filedata_list, invalid_idxs, 1),
         group_new       |-> DropIdx(group, invalid_idxs, 1),
         unproc_files    |-> [k \in 1..Len(bad) |-> <<bad[k], "OSError">>],
         file_bytes_read |-> IF sizes # <<>> THEN sizes[1] ELSE 0]

\* reads from each held handle at the handle's own position
read_filehandle_list(fhlist_group, amt_file_read, fhpos, npass) ==
    LET n == Len(fhlist_group)
        filedata_list ==
            [i \in 1..n |->
                IF ReadFails(fhlist_group[i], npass) THEN <<>>
                ELSE Chunk(Data(fhlist_group[i]), fhpos[fhlist_group[i]], amt_file_read)]
        filedata_size_list ==
            [i \in 1..n |->
                IF ReadFails(fhlist_group[i], npass) THEN -1 ELSE Len(filedata_list[i])]
    IN  ReadResult(fhlist_group, filedata_list, filedata_size_list)

\* the positions of the handles after read_filehandle_list
HandlePositions(fhlist_group, amt_file_read, fhpos, npass) ==
    [f \in DOMAIN fhpos |->
        IF f \in Range(fhlist_group) /\ ~ReadFails(f, npass)
        THEN fhpos[f] + Len(Chunk(Data(f), fhpos[f], amt_file_read))
        ELSE fhpos[f]]

\* mutant: the file is opened and read without the seek
read_filelist_noSeek(filelist_group, filepos, amt_file_read, npass) ==
    LET n == Len(filelist_group)
        filedata_list ==
            [i \in 1..n |->
                IF ReadFails(filelist_group[i], npass) THEN <<>>
                ELSE Chunk(Data(filelist_group[i]), 0, amt_file_read)]
        filedata_size_list ==
            [i \in 1..n |->
                IF ReadFails(filelist_group[i], npass) THEN -1 ELSE Len(filedata_list[i])]
    IN  ReadResult(filelist_group, filedata_list, filedata_size_list)

\* opens each file, seeks to filepos, reads, closes
read_filelist(filelist_group, filepos, amt_file_read, npass) ==
    LET n == Len(filelist_group)
        filedata_list ==
            [i \in 1..n |->
                IF ReadFails(filelist_group[i], npass) THEN <<>>
                ELSE Chunk(Data(filelist_group[i]), filepos, amt_file_read)]
        filedata_size_list ==
            [i \in 1..n |->
                IF ReadFails(filelist_group[i], npass) THEN -1 ELSE Len(filedata_list[i])]
    IN  ReadResult(filelist_group, filedata_list, filedata_size_list)

(***************************************************************************)
(* compare_file_group.  The frame c holds its locals; npass, opens, reads, *)
(* fh_open, peak and hist are bookkeeping: the passes started, the open()  *)
(* and read() calls made, the handles open now, the most handles that were *)
(* open at one time, and for each pass started the groups it was to read   *)
(* and the chunk size it asked for.                                        *)
(***************************************************************************)
NewFrame(filelist) ==
    [pc |-> "start", filelist |-> filelist, filepos |-> 0,
     amt_file_read |-> FIRST_CHUNK, open_filehandles |-> <<>>, fhpos |-> <<>>,
     filelist_groups_next |-> <<>>, unique_files |-> <<>>, dup_groups |-> <<>>,
     unproc_files |-> <<>>, npass |-> 0, opens |-> 0, reads |-> 0, fh_open |-> {},
     peak |-> 0, hist |-> <<>>]

MaxOf(a, b) == IF a > b THEN a ELSE b

\* mutant: the handles are held whatever the size of the bucket
HoldHandles_always(filelist) == TRUE

\* line 489: the handles are held across the passes
HoldHandles(filelist) == Len(filelist) < MAX_FILES_OPEN

\* mutant: only the handles of the groups still pending are closed
CloseAll_pending(c) ==
    [c EXCEPT !.fh_open =
        @ \ UNION {Range(c.filelist_groups_next[k]) : k \in DOMAIN c.filelist_groups_next}]

\* lines 516-517 and 608-610: for fh in open_filehandles: fh.close()
CloseAll(c) == [c EXCEPT !.fh_open = @ \ Range(c.open_filehandles)]

\* lines 491-508: the frame after the first k files of filelist were opened
OpenFirst(c, k) ==
    LET tried == SubSeq(c.filelist, 1, k)
        opened == SelectSeq(tried, LAMBDA f : ~ReadFails(f, 0))
        failed == SelectSeq(tried, LAMBDA f : ReadFails(f, 0))
    IN  [c EXCEPT !.unproc_files = [i \in 1..Len(failed) |-> <<failed[i], "OSError">>],
                  !.open_filehandles = opened,
                  !.fhpos = [f \in Range(opened) |-> 0],
                  !.fh_open = Range(opened),
                  !.peak = Len(opened),
                  !.opens = k]

\* lines 490-521: the two branches of the test of line 489
OpenAllAs(c, hold) ==
    IF hold
    THEN LET o == OpenFirst(c, Len(c.filelist))
         IN  [o EXCEPT !.pc = "loop", !.filelist_groups_next = <<o.open_filehandles>>]
    ELSE [c EXCEPT !.pc = "loop", !.filelist_groups_next = <<c.filelist>>]

\* lines 488-521: the opens, or the file names when the bucket is too large
OpenAll(c) == OpenAllAs(c, HoldHandles(c.filelist))

\* mutant: no shortcut for a bucket of one file
CmpStartOp_noShortcut(c) == OpenAll(c)

\* lines 472-521: the one-file shortcut, then the opens
CmpStartOp(c) ==
    IF Len(c.filelist) = 1
    THEN [c EXCEPT !.pc = "done", !.unique_files = c.filelist]
    ELSE OpenAll(c)

\* mutant: a read of no bytes does not end the group
ReachedEnd_notOnEmpty(file_bytes_read, amt_file_read) ==
    file_bytes_read < amt_file_read /\ file_bytes_read > 0

\* mutant: a full chunk already ends the group
ReachedEnd_atMost(file_bytes_read, amt_file_read) == file_bytes_read <= amt_file_read

\* mutant: only an empty read ends the group
ReachedEnd_onEmpty(file_bytes_read, amt_file_read) == file_bytes_read = 0

\* line 575: the group read less than it asked for, so its files are at their end
ReachedEnd(file_bytes_read, amt_file_read) == file_bytes_read < amt_file_read

\* lines 535-589: one group of one pass
GroupStep(c, filelist_group) ==
    LET held == c.open_filehandles # <<>>
        rd == IF held
              THEN read_filehandle_list(filelist_group, c.amt_file_read, c.fhpos, c.npass)
              ELSE read_filelist(filelist_group, c.filepos, c.amt_file_read, c.npass)
        mg == matching_array_groups(rd.filedata_list)
        grp == rd.group_new
        final == ReachedEnd(rd.file_bytes_read, c.amt_file_read)
        members == [k \in 1..Len(mg.match_idx_groups) |-> Pick(grp, mg.match_idx_groups[k])]
    IN  [c EXCEPT
            !.unproc_files = @ \o rd.unproc_files,
            !.unique_files = @ \o Pick(grp, mg.single_idx_groups),
            !.dup_groups =
                IF final
                THEN @ \o [k \in 1..Len(members) |-> <<fileblocks[members[k][1]], members[k]>>]
                ELSE @,
            !.filelist_groups_next = IF final THEN @ ELSE @ \o members,
            !.fhpos = IF held
                      THEN HandlePositions(filelist_group, c.amt_file_read, c.fhpos, c.npass)
                      ELSE @,
            !.opens = IF held THEN @ ELSE @ + Len(filelist_group),
            !.peak = IF held \/ \A f \in Range(filelist_group) : ReadFails(f, c.npass)
                     THEN @ ELSE MaxOf(@, 1),
            !.reads = @ + Len(SelectSeq(filelist_group, LAMBDA f : held \/ ~ReadFails(f, c.npass)))]

RECURSIVE ForGroups(_, _, _)
ForGroups(c, filelist_groups, k) ==
    IF k > Len(filelist_groups) THEN c
    ELSE ForGroups(GroupStep(c, filelist_groups[k]), filelist_groups, k + 1)

\* mutant: the budget is divided by the number of groups
NextChunk_perGroup(filelist_groups_next) == MEM_TO_USE \div Len(filelist_groups_next)

\* lines 594-599: the next chunk size
NextChunk(filelist_groups_next) ==
    MEM_TO_USE \div MaxIn({Len(filelist_groups_next[k]) : k \in DOMAIN filelist_groups_next})

\* mutant: the offset stays where it is after a pass
CmpPassOp_noAdvance(c) ==
    LET c0 == [c EXCEPT !.filelist_groups_next = <<>>, !.npass = @ + 1,
                        !.hist = Append(@, [groups |-> c.filelist_groups_next,
                                            amt |-> c.amt_file_read])]
        c2 == ForGroups(c0, c.filelist_groups_next, 1)
    IN  IF c2.filelist_groups_next = <<>> THEN c2
        ELSE LET amt == NextChunk(c2.filelist_groups_next)
             IN  IF amt < MIN_CHUNK
                 THEN CloseAll([c2 EXCEPT !.amt_file_read = amt, !.pc = "raised"])
                 ELSE [c2 EXCEPT !.amt_file_read = amt]

\* lines 523-610: one iteration of the while loop; the budget exception leaves
\* through the finally clause
CmpPassOp(c) ==
    LET c0 == [c EXCEPT !.filelist_groups_next = <<>>, !.npass = @ + 1,
                        !.hist = Append(@, [groups |-> c.filelist_groups_next,
                                            amt |-> c.amt_file_read])]
        c1 == ForGroups(c0, c.filelist_groups_next, 1)
        c2 == [c1 EXCEPT !.filepos = @ + c.amt_file_read]
    IN  IF c2.filelist_groups_next = <<>> THEN c2
        ELSE LET amt == NextChunk(c2.filelist_groups_next)
             IN  IF amt < MIN_CHUNK
                 THEN CloseAll([c2 EXCEPT !.amt_file_read = amt, !.pc = "raised"])
                 ELSE [c2 EXCEPT !.amt_file_read = amt]

\* lines 605-613: the loop ends, the handles are closed, the lists are returned
CmpReturnOp(c) == CloseAll([c EXCEPT !.pc = "done"])

\* lines 499-501 and 513-518: KeyboardInterrupt in the open of file k + 1; the
\* handles opened so far are closed and the interrupt goes on to the caller
CmpOpenInterruptOp(c, k) == [CloseAll(OpenFirst(c, k)) EXCEPT !.pc = "interrupted"]

\* lines 347-357, 415-425 and 605-610: an exception other than OSError in the
\* read of group j + 1 of a pass leaves through the finally clause; in the
\* mode that reopens, the with statement has closed the one handle before
CmpPassExceptOp(c, j, exc) ==
    LET c0 == [c EXCEPT !.filelist_groups_next = <<>>, !.npass = @ + 1,
                        !.hist = Append(@, [groups |-> c.filelist_groups_next,
                                            amt |-> c.amt_file_read])]
        c1 == ForGroups(c0, SubSeq(c.filelist_groups_next, 1, j), 1)
        c2 == [c1 EXCEPT !.peak = IF c.open_filehandles # <<>> THEN @ ELSE MaxOf(@, 1),
                         !.pc = IF exc = "KeyboardInterrupt" THEN "interrupted"
                                ELSE "failed"]
    IN  CloseAll(c2)

RECURSIVE CmpLoop(_)
CmpLoop(c) ==
    IF c.pc # "loop" THEN c
    ELSE IF c.filelist_groups_next = <<>> THEN CmpReturnOp(c)
    ELSE CmpLoop(CmpPassOp(c))

\* the whole call
compare_file_group(filelist) == CmpLoop(CmpStartOp(NewFrame(filelist)))

\* the whole call of a bucket of two files or more, with the branch of line 489
\* given: what the call does when MAX_FILES_OPEN is above or not above the
\* size of the bucket
CompareAs(filelist, hold) == CmpLoop(OpenAllAs(NewFrame(filelist), hold))

(***************************************************************************)
(* create_file_ids: unique files get one id each, then each duplicate      *)
(* group one id.  TreeSet is subtree_dict(...)[name] = v.                  *)
(***************************************************************************)
TreeSet(ft, p, v) ==
    [keys |-> IF p \in Range(ft.keys) THEN ft.keys ELSE Append(ft.keys, p),
     id   |-> (p :> v) @@ ft.id]

RECURSIVE SetEach(_, _, _, _)
\* for dup_file in files[k..]: tree[dup_file] = idnum
SetEach(ft, files, k, idnum) ==
    IF k > Len(files) THEN ft
    ELSE SetEach(TreeSet(ft, files[k], idnum), files, k + 1, idnum)

RECURSIVE IdUniques(_, _, _)
IdUniques(ft, unique, k) ==
    IF k > Len(unique) THEN ft
    ELSE IdUniques(TreeSet(ft, unique[k], k - 1), unique, k + 1)

RECURSIVE IdDups(_, _, _, _)
IdDups(ft, dgs, k, idnum) ==
    IF k > Len(dgs) THEN ft
    ELSE IdDups(SetEach(ft, dgs[k][2], 1, idnum), dgs, k + 1, idnum + 1)

\* mutant: every file of the tree that is left without an id gets one
create_file_ids_everyFile(dgs, unique, ft) ==
    LET r == IdDups(IdUniques(ft, unique, 1), dgs, 1, Len(unique))
    IN  [r EXCEPT !.id = [p \in DOMAIN @ |-> IF @[p] = -1 THEN Len(unique) + Len(dgs) ELSE @[p]]]

\* mutant: the ids are counted from -1, so the first file to get one is left
\* with the placeholder
create_file_ids_fromSentinel(dgs, unique, ft) ==
    LET r == IdDups(IdUniques(ft, unique, 1), dgs, 1, Len(unique))
    IN  [r EXCEPT !.id = [p \in DOMAIN @ |-> IF @[p] >= 0 THEN @[p] - 1 ELSE @[p]]]

create_file_ids(dgs, unique, ft) ==
    IdDups(IdUniques(ft, unique, 1), dgs, 1, Len(unique))

(***************************************************************************)
(* SpecCmp: compare_file_group on one bucket, then create_file_ids on its  *)
(* result.  The bucket is 1..MaxFiles regular files of one directory, all  *)
(* of one byte length 0..MaxLen; at most MaxFailing of them fail, each at  *)
(* the open or at any pass.  The first file's bytes are all 0: the readers *)
(* only test chunks for equality, so what matters is which files agree at  *)
(* each offset, and that is every pattern the other files can make with it.*)
(***************************************************************************)
FileNames == <<"f1", "f2", "f3", "f4", "f5">>

\* DupFinder.__init__ before _process_searchpaths
NoDupFinder == [searchpaths |-> <<>>, master_root |-> <<>>]

\* passes a file of MaxLen bytes can take part in
MaxPasses == MaxLen \div MIN_CHUNK

\* a regular file that nothing touches
Regular(data) ==
    [mode |-> "reg", stat_ok |-> TRUE, data |-> data,
     touched |-> FALSE, fails |-> FALSE, failAt |-> 0]

EmptyTree == [keys |-> <<>>, id |-> <<>>]

InitCmp ==
    \E n \in 1..MaxFiles, len \in 0..MaxLen :
        LET filelist == [i \in 1..n |-> <<"A", FileNames[i]>>]
            files == Range(filelist)
        IN  \E bad \in {b \in SUBSET files : Cardinality(b) <= MaxFailing} :
            \E data \in [files \ {filelist[1]} -> SeqsOfLen(Bytes, len)],
               failAt \in [bad -> 0..MaxPasses] :
                /\ fs = [f \in files |->
                            [Regular(IF f = filelist[1] THEN [i \in 1..len |-> 0] ELSE data[f])
                                EXCEPT !.fails = f \in bad,
                                       !.failAt = IF f \in bad THEN failAt[f] ELSE 0]]
                /\ cmp = NewFrame(filelist)
                /\ filetree = [keys |-> filelist, id |-> [f \in files |-> -1]]
                /\ fileblocks = [f \in files |-> StBlocks(fs[f])]
                /\ pc = "compare_file_group"
                /\ file_size_hash = <<>>
                /\ filemodtimes = <<>>
                /\ unproc_files = <<>>
                /\ dup_groups = <<>>
                /\ unique_files = <<>>
                /\ unique_dirs = <<>>
                /\ unknown_dirs = <<>>
                /\ bucket_i = 0
                /\ argv = <<>>
                /\ dup_find = NoDupFinder
                /\ status = -1
                /\ dirdict = <<>>

CmpStart ==
    /\ cmp.pc = "start"
    /\ cmp' = CmpStartOp(cmp)
    /\ UNCHANGED <<fs, dirdict, filetree, fileblocks, pipevars>>

CmpPass ==
    /\ cmp.pc = "loop"
    /\ cmp.filelist_groups_next # <<>>
    /\ cmp' = CmpPassOp(cmp)
    /\ UNCHANGED <<fs, dirdict, filetree, fileblocks, pipevars>>

CmpReturn ==
    /\ cmp.pc = "loop"
    /\ cmp.filelist_groups_next = <<>>
    /\ cmp' = CmpReturnOp(cmp)
    /\ UNCHANGED <<fs, dirdict, filetree, fileblocks, pipevars>>

\* create_file_ids on the lists the call returned
CmpCreateIds ==
    /\ cmp.pc = "done"
    /\ cmp' = [cmp EXCEPT !.pc = "ids"]
    /\ filetree' = create_file_ids(cmp.dup_groups, cmp.unique_files, filetree)
    /\ UNCHANGED <<fs, dirdict, fileblocks, pipevars>>

\* KeyboardInterrupt while the handles are opened
CmpOpenInterrupt ==
    /\ cmp.pc = "start"
    /\ Len(cmp.filelist) # 1
    /\ HoldHandles(cmp.filelist)
    /\ \E k \in 0..(Len(cmp.filelist) - 1) : cmp' = CmpOpenInterruptOp(cmp, k)
    /\ UNCHANGED <<fs, dirdict, filetree, fileblocks, pipevars>>

\* KeyboardInterrupt or another exception during a pass
CmpPassExcept ==
    /\ cmp.pc = "loop"
    /\ cmp.filelist_groups_next # <<>>
    /\ \E j \in 0..(Len(cmp.filelist_groups_next) - 1),
          exc \in {"KeyboardInterrupt", "Exception"} :
           cmp' = CmpPassExceptOp(cmp, j, exc)
    /\ UNCHANGED <<fs, dirdict, filetree, fileblocks, pipevars>>

NextCmp ==
    \/ CmpStart
    \/ CmpPass
    \/ CmpReturn
    \/ CmpCreateIds
    \/ CmpOpenInterrupt
    \/ CmpPassExcept

SpecCmp == InitCmp /\ [][NextCmp]_vars

(***************************************************************************)
(* hash_files_by_size.  The catalog is the record                          *)
(*   [fileblocks, unproc_files, filetree, file_size_hash, filemodtimes].   *)
(***************************************************************************)
\* mutant: a file goes into the first bucket there is, whatever its size
HashAppend_firstBucket(fsh, this_size, filepath) ==
    IF fsh # <<>>
    THEN [k \in DOMAIN fsh |-> IF k = 1 THEN <<fsh[k][1], Append(fsh[k][2], filepath)>>
                               ELSE fsh[k]]
    ELSE Append(fsh, <<this_size, <<filepath>>>>)

\* file_size_hash.setdefault(this_size, []).append(filepath)
HashAppend(fsh, this_size, filepath) ==
    IF \E k \in DOMAIN fsh : fsh[k][1] = this_size
    THEN [k \in DOMAIN fsh |->
             IF fsh[k][1] = this_size THEN <<this_size, Append(fsh[k][2], filepath)>>
             ELSE fsh[k]]
    ELSE Append(fsh, <<this_size, <<filepath>>>>)

\* mutant: an entry that is not a regular file is put into the tree as well
process_file_size_all(cat, filepath) ==
    LET st == check_stat_file(filepath, FALSE)
    IN  [cat EXCEPT
            !.fileblocks = IF st.blocks # -1 THEN (filepath :> st.blocks) @@ @ ELSE @,
            !.unproc_files = IF st.size = -1 THEN Append(@, <<filepath>> \o st.info) ELSE @,
            !.filetree = TreeSet(@, filepath, -1),
            !.file_size_hash = IF st.size = -1 THEN @ ELSE HashAppend(@, st.size, filepath),
            !.filemodtimes = IF st.size = -1 THEN @ ELSE Append(@, <<filepath, st.mod>>)]

\* lines 1076-1103
process_file_size(cat, filepath) ==
    LET st == check_stat_file(filepath, FALSE)
        cat1 == IF st.blocks # -1
                THEN [cat EXCEPT !.fileblocks = (filepath :> st.blocks) @@ @]
                ELSE cat
    IN  IF st.size = -1
        THEN [cat1 EXCEPT !.unproc_files = Append(@, <<filepath>> \o st.info)]
        ELSE [cat1 EXCEPT
                 !.filetree = TreeSet(@, filepath, -1),
                 !.file_size_hash = HashAppend(@, st.size, filepath),
                 !.filemodtimes = Append(@, <<filepath, st.mod>>)]

RECURSIVE WalkFiles(_, _, _)
\* lines 1113-1127: every file of every search path, in the order of the walk
WalkFiles(cat, walk, k) ==
    IF k > Len(walk) THEN cat
    ELSE WalkFiles(process_file_size(cat, walk[k]), walk, k + 1)

(***************************************************************************)
(* check_files_for_changes.                                                *)
(***************************************************************************)
\* list.remove(x): the first occurrence goes
RECURSIVE RemoveFirst(_, _)
RemoveFirst(s, x) ==
    IF s = <<>> THEN <<>>
    ELSE IF s[1] = x THEN Tail(s)
    ELSE <<s[1]>> \o RemoveFirst(Tail(s), x)

\* mutant: a changed file is tagged but stays in its unique list or group
FileChanged_keep(st, filepath) ==
    [st EXCEPT !.filetree = TreeSet(@, filepath, -1),
               !.unproc_files = Append(@, <<filepath, "changed">>)]

\* lines 1220-1230: the body for a file whose modification time differs
FileChanged(st, filepath) ==
    [st EXCEPT
        !.filetree = TreeSet(@, filepath, -1),
        !.unproc_files = Append(@, <<filepath, "changed">>),
        !.unique_files = IF filepath \in Range(@) THEN RemoveFirst(@, filepath) ELSE @,
        !.dup_groups = [k \in DOMAIN @ |->
                           IF filepath \in Range(@[k][2])
                           THEN <<@[k][1], RemoveFirst(@[k][2], filepath)>>
                           ELSE @[k]]]

RECURSIVE CheckChanges(_, _, _)
\* lines 1216-1219: st is [filetree, unproc_files, unique_files, dup_groups]
CheckChanges(st, modtimes, k) ==
    IF k > Len(modtimes) THEN st
    ELSE LET filepath == modtimes[k][1]
             this_mod == check_stat_file(filepath, TRUE).mod
         IN  CheckChanges(IF this_mod # modtimes[k][2] THEN FileChanged(st, filepath) ELSE st,
                          modtimes, k + 1)

(***************************************************************************)
(* Strings: str(int), ','.join, list.sort on strings.                      *)
(* Codes: ',' 44, '-' 45, '0'..'9' 48..57, '[' 91, ']' 93.                 *)
(***************************************************************************)
RECURSIVE Digits(_)
Digits(n) == IF n < 10 THEN <<48 + n>> ELSE Digits(n \div 10) \o <<48 + (n % 10)>>

\* str(n)
Str(n) == IF n < 0 THEN <<45>> \o Digits(0 - n) ELSE Digits(n)

\* a < b for strings: by code point, a proper prefix first
RECURSIVE StrLess(_, _)
StrLess(a, b) ==
    IF b = <<>> THEN FALSE
    ELSE IF a = <<>> THEN TRUE
    ELSE IF a[1] # b[1] THEN a[1] < b[1]
    ELSE StrLess(Tail(a), Tail(b))

RECURSIVE Insert(_, _)
Insert(sorted, x) ==
    IF sorted = <<>> THEN <<x>>
    ELSE IF StrLess(x, sorted[1]) THEN <<x>> \o sorted
    ELSE <<sorted[1]>> \o Insert(Tail(sorted), x)

RECURSIVE SortStrings(_)
\* itemlist.sort()
SortStrings(itemlist) ==
    IF itemlist = <<>> THEN <<>>
    ELSE Insert(SortStrings(SubSeq(itemlist, 1, Len(itemlist) - 1)), itemlist[Len(itemlist)])

RECURSIVE Join_noComma(_)
\* ''.join(itemlist)
Join_noComma(itemlist) ==
    IF itemlist = <<>> THEN <<>>
    ELSE itemlist[1] \o Join_noComma(Tail(itemlist))

RECURSIVE Join(_)
\* ','.join(itemlist)
Join(itemlist) ==
    IF itemlist = <<>> THEN <<>>
    ELSE IF Len(itemlist) = 1 THEN itemlist[1]
    ELSE itemlist[1] \o <<44>> \o Join(Tail(itemlist))

\* the string "-1"
Unknown == <<45, 49>>

(***************************************************************************)
(* recurse_subtree and recurse_analyze_filetree.                           *)
(***************************************************************************)
IsPrefix(d, p) == Len(d) <= Len(p) /\ SubSeq(p, 1, Len(d)) = d

RECURSIVE FirstSeen(_)
\* the distinct elements of s, each at its first place
FirstSeen(s) ==
    IF s = <<>> THEN <<>>
    ELSE LET front == FirstSeen(SubSeq(s, 1, Len(s) - 1))
         IN  IF s[Len(s)] \in Range(front) THEN front ELSE Append(front, s[Len(s)])

\* subtree.keys() of directory name: the names directly inside it, in dict order
Keys(ft, name) ==
    LET below == SelectSeq(ft.keys, LAMBDA p : IsPrefix(name, p) /\ Len(p) > Len(name))
    IN  FirstSeen([k \in 1..Len(below) |-> below[k][Len(name) + 1]])

\* isinstance(subtree[key], dict)
IsDir(ft, path) == path \notin Range(ft.keys)

\* dir_dict.setdefault(hier_id_str, []).append(name)
DictAppend(dir_dict, hier_id_str, name) ==
    IF \E k \in DOMAIN dir_dict : dir_dict[k][1] = hier_id_str
    THEN [k \in DOMAIN dir_dict |->
             IF dir_dict[k][1] = hier_id_str
             THEN <<hier_id_str, Append(dir_dict[k][2], name)>>
             ELSE dir_dict[k]]
    ELSE Append(dir_dict, <<hier_id_str, <<name>>>>)

\* mutant: the child signatures are joined in the order of the dict
HierIdStr_unsorted(itemlist) ==
    IF Unknown \in Range(itemlist) THEN Unknown
    ELSE <<91>> \o Join(itemlist) \o <<93>>

\* mutant: an unknown child is joined like any other
HierIdStr_noSentinel(itemlist) == <<91>> \o Join(SortStrings(itemlist)) \o <<93>>

\* lines 702-708: the signature of a directory from those of its children
HierIdStr(itemlist) ==
    IF Unknown \in Range(itemlist) THEN Unknown
    ELSE <<91>> \o Join(SortStrings(itemlist)) \o <<93>>

RECURSIVE recurse_subtree(_, _, _, _)
RECURSIVE SubtreeLoop(_, _, _, _, _)
\* lines 689-697: the loop over subtree.keys(); acc is
\* [itemlist, dir_blocks, dir_dict, fileblocks]
SubtreeLoop(name, ft, keys, k, acc) ==
    IF k > Len(keys) THEN acc
    ELSE LET path == Append(name, keys[k])
             sub == IF IsDir(ft, path)
                    THEN recurse_subtree(path, ft, acc.dir_dict, acc.fileblocks)
                    ELSE [hier_id_str |-> Str(ft.id[path]), dir_dict |-> acc.dir_dict,
                          fileblocks |-> acc.fileblocks]
         IN  SubtreeLoop(name, ft, keys, k + 1,
                         [itemlist   |-> Append(acc.itemlist, sub.hier_id_str),
                          dir_blocks |-> acc.dir_blocks + sub.fileblocks[path],
                          dir_dict   |-> sub.dir_dict,
                          fileblocks |-> sub.fileblocks])

\* lines 687-712: [hier_id_str, dir_dict, fileblocks]
recurse_subtree(name, ft, dir_dict, blocks) ==
    LET acc == SubtreeLoop(name, ft, Keys(ft, name), 1,
                           [itemlist |-> <<>>, dir_blocks |-> 0,
                            dir_dict |-> dir_dict, fileblocks |-> blocks])
        hier_id_str == HierIdStr(acc.itemlist)
    IN  [hier_id_str |-> hier_id_str,
         dir_dict    |-> DictAppend(acc.dir_dict, hier_id_str, name),
         fileblocks  |-> (name :> acc.dir_blocks) @@ acc.fileblocks]

\* x + os.path.sep
WithSep(x) == Append(x, "")

AllWithSep(names) == [k \in 1..Len(names) |-> WithSep(names[k])]

\* dir_dict.get("-1", [])
DictGet(dir_dict, key) ==
    IF \E k \in DOMAIN dir_dict : dir_dict[k][1] = key
    THEN dir_dict[CHOOSE k \in DOMAIN dir_dict : dir_dict[k][1] = key][2]
    ELSE <<>>

\* mutant: the "-1" entry stays among the groups that are matched
KnownGroups_all(dir_dict) == dir_dict

\* lines 760-761: del dir_dict["-1"]
KnownGroups(dir_dict) == SelectSeq(dir_dict, LAMBDA g : g[1] # Unknown)

\* lines 747-780: [unique_dirs, unknown_dirs, dup_dirs, fileblocks]
recurse_analyze_filetree(ft, master_root, blocks) ==
    LET r == recurse_subtree(master_root, ft, <<>>, blocks)
        known == KnownGroups(r.dir_dict)
        dups == SelectSeq(known, LAMBDA g : Len(g[2]) > 1)
        ones == SelectSeq(known, LAMBDA g : Len(g[2]) = 1)
    IN  [unknown_dirs |-> AllWithSep(DictGet(r.dir_dict, Unknown)),
         dup_dirs     |-> [k \in 1..Len(dups) |->
                              <<r.fileblocks[dups[k][2][1]], AllWithSep(dups[k][2])>>],
         unique_dirs  |-> [k \in 1..Len(ones) |-> WithSep(ones[k][2][1])],
         fileblocks   |-> r.fileblocks]

(***************************************************************************)
(* DupFinder._process_searchpaths.  A search path as given is a sequence   *)
(* of names in which "." stands for what os.path.realpath takes away.      *)
(***************************************************************************)
realpath(x) == SelectSeq(x, LAMBDA n : n # ".")

\* list(set(...)): the elements of S, once each, in any order
ListsOf(S) == {q \in [1..Cardinality(S) -> S] : Range(q) = S}

\* lines 1021-1022: relpath(searchpath1, start=searchpath2) is neither '.' nor
\* starts with '..', so searchpath1 lies inside searchpath2
Nested(searchpath1, searchpath2) ==
    searchpath1 # searchpath2 /\ IsPrefix(searchpath2, searchpath1)

\* lines 1019-1027: the keys of remove_searchpath
remove_searchpath(new_searchpaths) ==
    {p \in Range(new_searchpaths) : \E q \in Range(new_searchpaths) : Nested(p, q)}

RECURSIVE DelLoop(_, _, _)
\* lines 1028-1030: del new_searchpaths[i] inside the enumeration of the same
\* list; the enumeration goes on at place i + 1 of the list as it is then
DelLoop(new_searchpaths, remove, i) ==
    IF i > Len(new_searchpaths) THEN new_searchpaths
    ELSE IF new_searchpaths[i] \in remove
         THEN DelLoop(DropIdx(new_searchpaths, {i}, 1), remove, i + 1)
         ELSE DelLoop(new_searchpaths, remove, i + 1)

\* os.path.commonpath
commonpath(paths) ==
    LET first == paths[1]
        ks == {k \in 0..Len(first) : \A q \in Range(paths) : IsPrefix(SubSeq(first, 1, k), q)}
    IN  SubSeq(first, 1, MaxIn(ks))

\* lines 1009-1034: what _process_searchpaths can leave in the object, one
\* outcome for each order list(set(...)) can give
process_searchpaths(raw_searchpaths) ==
    {LET kept == DelLoop(l, remove_searchpath(l), 1)
     IN  [searchpaths |-> kept, master_root |-> commonpath(kept)] :
        l \in ListsOf({realpath(raw_searchpaths[i]) : i \in DOMAIN raw_searchpaths})}

(***************************************************************************)
(* Spec: main() of the command, src/src/finddup/main.py: the check of the  *)
(* search paths, the DupFinder, then the phases of the analysis and the    *)
(* report as main() of finddup.py calls them one by one.  The search paths *)
(* are the directories A and B, so master_root is their parent, the path   *)
(* <<>>; a third search path C, which does not exist, may be given.  Each  *)
(* directory holds two regular files of 0..MaxTreeLen bytes, or all four   *)
(* files are the same file of MaxTreeLen + 1 bytes; A may hold one more    *)
(* entry: a file with an ignored name, a symbolic link, a fifo, a socket,  *)
(* or an entry whose stat fails.  At most MaxFaulty regular files are      *)
(* touched during the run or fail to open or read.                         *)
(***************************************************************************)
master_root == <<>>

searchpaths == << <<"A">>, <<"B">> >>

TreeFiles == {Append(searchpaths[d], FileNames[i]) : d \in 1..2, i \in 1..2}

\* os.walk: the entries in the order in which they are met
WalkOrder ==
    << <<"A", "f1">>, <<"A", "f2">>, <<"A", ".DS_Store">>, <<"A", "x">>,
       <<"B", "f1">>, <<"B", "f2">> >>

SeqsUpTo(S, n) == UNION {SeqsOfLen(S, k) : k \in 0..n}

\* the entry A may hold besides its regular files: <<>> or a function of one path
ExtraEntries ==
    {<<>>}
    \cup {<<"A", ".DS_Store">> :> Regular(<<0>>)}
    \cup {<<"A", "x">> :> [Regular(<<0>>) EXCEPT !.mode = m] : m \in {"lnk", "fifo", "sock"}}
    \cup {<<"A", "x">> :> [Regular(<<0>>) EXCEPT !.stat_ok = FALSE]}

\* passes a file of MaxTreeLen bytes can take part in
TreePasses == MaxTreeLen \div MIN_CHUNK

\* what can go wrong with a regular file during the run
Faults ==
    {[touched |-> TRUE, fails |-> FALSE, failAt |-> 0]}
    \cup [touched : BOOLEAN, fails : {TRUE}, failAt : 0..TreePasses]

Idle == [NewFrame(<<>>) EXCEPT !.pc = "idle"]

\* the contents of the four files
TreeData ==
    [TreeFiles -> SeqsUpTo(Bytes, MaxTreeLen)]
    \cup {[f \in TreeFiles |-> [i \in 1..(MaxTreeLen + 1) |-> 0]]}

\* the search paths given on the command line
Arguments == {searchpaths, Append(searchpaths, <<"C">>)}

RECURSIVE WalkOf(_)
\* lines 1113-1123: os.walk of each search path in turn
WalkOf(sps) ==
    IF sps = <<>> THEN <<>>
    ELSE SelectSeq(WalkOrder, LAMBDA p : IsPrefix(sps[1], p) /\ p \in DOMAIN fs)
         \o WalkOf(Tail(sps))

\* Path.exists()
Exists(search_path) == \E f \in DOMAIN fs : IsPrefix(realpath(search_path), f)

Init ==
    \E data \in TreeData,
       extra \in ExtraEntries,
       bad \in {b \in SUBSET TreeFiles : Cardinality(b) <= MaxFaulty} :
        \E fault \in [bad -> Faults] :
            /\ fs = [f \in TreeFiles |->
                        IF f \in bad
                        THEN [Regular(data[f]) EXCEPT !.touched = fault[f].touched,
                                                      !.fails = fault[f].fails,
                                                      !.failAt = fault[f].failAt]
                        ELSE Regular(data[f])] @@ extra
            /\ cmp = Idle
            /\ pc = "main"
            /\ argv \in Arguments
            /\ dup_find = NoDupFinder
            /\ status = -1
            /\ dirdict = <<>>
            /\ file_size_hash = <<>>
            /\ filetree = EmptyTree
            /\ filemodtimes = <<>>
            /\ fileblocks = <<>>
            /\ unproc_files = <<>>
            /\ dup_groups = <<>>
            /\ unique_files = <<>>
            /\ unique_dirs = <<>>
            /\ unknown_dirs = <<>>
            /\ bucket_i = 0

\* mutant: the search paths are not tested, the DupFinder is made of whatever
\* is given
MainStart_noCheck ==
    /\ pc = "main"
    /\ dup_find' \in process_searchpaths(argv)
    /\ pc' = "hash_files_by_size"
    /\ UNCHANGED <<argv, status, fs, dirdict, cmp, file_size_hash, filetree, filemodtimes,
                   fileblocks, unproc_files, dup_groups, unique_files, unique_dirs,
                   unknown_dirs, bucket_i>>

\* main.py lines 103-111: a search path that does not exist ends the run with
\* status 1; otherwise the DupFinder is made
MainStart ==
    /\ pc = "main"
    /\ IF \E i \in DOMAIN argv : ~Exists(argv[i])
       THEN /\ status' = 1
            /\ pc' = "exited"
            /\ dup_find' = dup_find
       ELSE /\ dup_find' \in process_searchpaths(argv)
            /\ pc' = "hash_files_by_size"
            /\ status' = status
    /\ UNCHANGED <<argv, fs, dirdict, cmp, file_size_hash, filetree, filemodtimes, fileblocks,
                   unproc_files, dup_groups, unique_files, unique_dirs, unknown_dirs,
                   bucket_i>>

\* lines 1067-1147
HashFilesBySize ==
    /\ pc = "hash_files_by_size"
    /\ LET cat == WalkFiles([fileblocks |-> <<>>, unproc_files |-> <<>>,
                             filetree |-> EmptyTree, file_size_hash |-> <<>>,
                             filemodtimes |-> <<>>],
                            WalkOf(dup_find.searchpaths), 1)
       IN  /\ file_size_hash' = cat.file_size_hash
           /\ filetree' = cat.filetree
           /\ filemodtimes' = cat.filemodtimes
           /\ fileblocks' = cat.fileblocks
           /\ unproc_files' = cat.unproc_files
    /\ pc' = "compare_files"
    /\ UNCHANGED <<mainvars, fs, dirdict, cmp, dup_groups, unique_files, unique_dirs, unknown_dirs, bucket_i>>

\* lines 1176-1181: one bucket; the budget exception is caught nowhere, and the
\* lists of compare_files, which are its locals until line 1197, go with it
CompareFilesStep ==
    /\ pc = "compare_files"
    /\ bucket_i < Len(file_size_hash)
    /\ LET r == compare_file_group(file_size_hash[bucket_i + 1][2])
       IN  /\ IF r.pc = "raised"
              THEN /\ pc' = "aborted"
                   /\ unique_files' = <<>>
                   /\ dup_groups' = <<>>
                   /\ UNCHANGED <<unproc_files, bucket_i>>
              ELSE /\ unique_files' = unique_files \o r.unique_files
                   /\ dup_groups' = dup_groups \o r.dup_groups
                   /\ unproc_files' = unproc_files \o r.unproc_files
                   /\ bucket_i' = bucket_i + 1
                   /\ pc' = pc
       /\ cmp' = r
    /\ UNCHANGED <<mainvars, fs, dirdict, file_size_hash, filetree, filemodtimes, fileblocks,
                   unique_dirs, unknown_dirs>>

\* lines 1189-1198: the loop is over; without any bucket the loop variable i of
\* line 1191 is unbound and the NameError is caught nowhere
CompareFilesEnd ==
    /\ pc = "compare_files"
    /\ bucket_i = Len(file_size_hash)
    /\ pc' = IF file_size_hash = <<>> THEN "aborted" ELSE "check_files_for_changes"
    /\ UNCHANGED <<mainvars, fs, dirdict, cmp, file_size_hash, filetree, filemodtimes, fileblocks,
                   unproc_files, dup_groups, unique_files, unique_dirs, unknown_dirs,
                   bucket_i>>

\* lines 1200-1230
CheckFilesForChanges ==
    /\ pc = "check_files_for_changes"
    /\ LET st == CheckChanges([filetree |-> filetree, unproc_files |-> unproc_files,
                               unique_files |-> unique_files, dup_groups |-> dup_groups],
                              filemodtimes, 1)
       IN  /\ filetree' = st.filetree
           /\ unproc_files' = st.unproc_files
           /\ unique_files' = st.unique_files
           /\ dup_groups' = st.dup_groups
    /\ pc' = "create_file_ids2"
    /\ UNCHANGED <<mainvars, fs, dirdict, cmp, file_size_hash, filemodtimes, fileblocks,
                   unique_dirs, unknown_dirs, bucket_i>>

\* lines 1233-1239
CreateFileIds2 ==
    /\ pc = "create_file_ids2"
    /\ filetree' = create_file_ids(dup_groups, unique_files, filetree)
    /\ pc' = "recurse_analyze_filetree2"
    /\ UNCHANGED <<mainvars, fs, dirdict, cmp, file_size_hash, filemodtimes, fileblocks, unproc_files,
                   dup_groups, unique_files, unique_dirs, unknown_dirs, bucket_i>>

\* lines 1241-1243
RecurseAnalyzeFiletree2 ==
    /\ pc = "recurse_analyze_filetree2"
    /\ LET r == recurse_analyze_filetree(filetree, dup_find.master_root, fileblocks)
       IN  /\ unique_dirs' = r.unique_dirs
           /\ unknown_dirs' = r.unknown_dirs
           /\ dup_groups' = dup_groups \o r.dup_dirs
           /\ fileblocks' = r.fileblocks
    /\ pc' = "report"
    /\ UNCHANGED <<mainvars, fs, dirdict, cmp, file_size_hash, filetree, filemodtimes, unproc_files,
                   unique_files, bucket_i>>

\* lines 1331-1349 and main.py lines 116-122: the report, then return 0;
\* print_sorted_uniques2 extends unique_files by the unique directories
MainReturn ==
    /\ pc = "report"
    /\ unique_files' = unique_files \o unique_dirs
    /\ status' = 0
    /\ pc' = "exited"
    /\ UNCHANGED <<argv, dup_find, fs, dirdict, cmp, file_size_hash, filetree, filemodtimes,
                   fileblocks, unproc_files, dup_groups, unique_dirs, unknown_dirs,
                   bucket_i>>

\* main.py line 114: the steps of DupFinder.analyze(), in their order
analyze ==
    <<"hash_files_by_size", "compare_files", "check_files_for_changes",
      "create_file_ids2", "recurse_analyze_filetree2">>

Running == pc \in {"main", "report"} \cup Range(analyze)

\* main.py lines 125-132: KeyboardInterrupt reaches cli() from wherever main() is
KeyboardInterruptRaised ==
    /\ Running
    /\ status' = 130
    /\ pc' = "exited"
    /\ UNCHANGED <<argv, dup_find, fs, dirdict, cmp, file_size_hash, filetree, filemodtimes,
                   fileblocks, unproc_files, dup_groups, unique_files, unique_dirs,
                   unknown_dirs, bucket_i>>

\* main.py lines 125-132: cli() catches nothing else, so the budget exception
\* ends the process as any uncaught exception does, with status 1
UncaughtException ==
    /\ pc = "aborted"
    /\ status' = 1
    /\ pc' = "exited"
    /\ UNCHANGED <<argv, dup_find, fs, dirdict, cmp, file_size_hash, filetree, filemodtimes,
                   fileblocks, unproc_files, dup_groups, unique_files, unique_dirs,
                   unknown_dirs, bucket_i>>

Next ==
    \/ MainStart
    \/ HashFilesBySize
    \/ CompareFilesStep
    \/ CompareFilesEnd
    \/ CheckFilesForChanges
    \/ CreateFileIds2
    \/ RecurseAnalyzeFiletree2
    \/ MainReturn
    \/ KeyboardInterruptRaised
    \/ UncaughtException

Spec == Init /\ [][Next]_vars

(***************************************************************************)
(* SpecPaths: DupFinder.__init__ on a list of 1..MaxPaths raw search       *)
(* paths, some given with a "." in them, some equal, some inside others.   *)
(***************************************************************************)
RawPaths ==
    {<<"a">>, <<"a", "b">>, <<"a", "c">>, <<"b">>, <<"a", ".", "b">>}

InitPaths ==
    /\ argv \in UNION {[1..n -> RawPaths] : n \in 1..MaxPaths}
    /\ dup_find = NoDupFinder
    /\ status = -1
    /\ dirdict = <<>>
    /\ pc = "DupFinder"
    /\ fs = <<>>
    /\ cmp = Idle
    /\ filetree = EmptyTree
    /\ fileblocks = <<>>
    /\ file_size_hash = <<>>
    /\ filemodtimes = <<>>
    /\ unproc_files = <<>>
    /\ dup_groups = <<>>
    /\ unique_files = <<>>
    /\ unique_dirs = <<>>
    /\ unknown_dirs = <<>>
    /\ bucket_i = 0

\* lines 976-991: the constructor calls _process_searchpaths
ProcessSearchpaths ==
    /\ pc = "DupFinder"
    /\ dup_find' \in process_searchpaths(argv)
    /\ pc' = "hash_files_by_size"
    /\ UNCHANGED <<argv, status, fs, dirdict, cmp, file_size_hash, filetree, filemodtimes,
                   fileblocks, unproc_files, dup_groups, unique_files, unique_dirs,
                   unknown_dirs, bucket_i>>

NextPaths == ProcessSearchpaths

SpecPaths == InitPaths /\ [][NextPaths]_vars

(***************************************************************************)
(* Properties of compare_file_group (SpecCmp).                             *)
(***************************************************************************)
Returned == cmp.pc \in {"done", "ids"}

\* the members of the duplicate groups, group after group
RECURSIVE Members(_)
Members(dgs) == IF dgs = <<>> THEN <<>> ELSE dgs[1][2] \o Members(Tail(dgs))

Paths(unproc) == [k \in 1..Len(unproc) |-> unproc[k][1]]

SameGroup(dgs, f, g) == \E k \in DOMAIN dgs : {f, g} \subseteq Range(dgs[k][2])

\* C1: in a bucket where no open or read failed, after compare_file_group and
\* create_file_ids two members have the same ContentID iff their contents are
\* equal; they are in one duplicate group iff equal; a member equal to no other
\* member is in the unique list.
C1_SameIdIffIdentical ==
    (cmp.pc = "ids" /\ cmp.unproc_files = <<>>) =>
        \A f, g \in Range(cmp.filelist) :
            /\ filetree.id[f] >= 0
            /\ (filetree.id[f] = filetree.id[g]) <=> (Data(f) = Data(g))
            /\ f # g => (SameGroup(cmp.dup_groups, f, g) <=> (Data(f) = Data(g)))
            /\ (f \in Range(cmp.unique_files)) <=>
                   (\A h \in Range(cmp.filelist) \ {f} : Data(h) # Data(f))

\* C1 witness: three files of three bytes, two equal and one that differs only
\* in the second chunk, compared without failure and given ids
C1_Witness ==
    /\ cmp.pc = "ids"
    /\ cmp.unproc_files = <<>>
    /\ Len(cmp.filelist) = 3
    /\ cmp.npass >= 2
    /\ Len(cmp.unique_files) = 1
    /\ Len(cmp.dup_groups) = 1

\* C2: when compare_file_group has returned, every member of the bucket is in
\* exactly one of the unique list, one duplicate group, the unreadable list.
C2_ExactlyOneOutput ==
    Returned =>
        LET out == cmp.unique_files \o Members(cmp.dup_groups) \o Paths(cmp.unproc_files)
        IN  /\ Len(out) = Len(cmp.filelist)
            /\ Range(out) = Range(cmp.filelist)

\* C2 witness: a return after a second pass with a failed file and a duplicate group
C2_Witness ==
    /\ cmp.pc = "done"
    /\ cmp.npass >= 2
    /\ cmp.unproc_files # <<>>
    /\ cmp.dup_groups # <<>>
    /\ \E f \in Range(cmp.filelist) : fs[f].fails /\ fs[f].failAt = 2
                                      /\ f \in Range(Paths(cmp.unproc_files))

\* C9: a bucket of one member is returned as unique, with no open and no read,
\* whatever the state of the file.
C9_SingletonNoIO ==
    Len(cmp.filelist) = 1 =>
        /\ cmp.opens = 0 /\ cmp.reads = 0 /\ cmp.fh_open = {}
        /\ cmp.pc # "loop" /\ cmp.pc # "raised"
        /\ Returned => /\ cmp.unique_files = cmp.filelist
                       /\ cmp.dup_groups = <<>>
                       /\ cmp.unproc_files = <<>>

\* C9 witness: the one member is a file that cannot be opened
C9_Witness ==
    /\ Len(cmp.filelist) = 1
    /\ cmp.pc = "done"
    /\ fs[cmp.filelist[1]].fails /\ fs[cmp.filelist[1]].failAt = 0

Pending == UNION {Range(cmp.filelist_groups_next[k]) : k \in DOMAIN cmp.filelist_groups_next}

\* C10: the loop ends, by a return, by the budget exception or by an exception
\* that passes through: every step taken in the loop either leaves it or is a
\* pass that moves the offset up by the
\* (positive) chunk it used, no pass starts beyond the end of the files still
\* pending, and so there are never more than length + 1 passes.
C10_PassLoopTerminates ==
    /\ [][cmp.pc = "loop" =>
             \/ cmp'.npass = cmp.npass /\ cmp'.pc = "done"
             \/ cmp'.pc \in {"interrupted", "failed"}
             \/ /\ cmp'.npass = cmp.npass + 1
                /\ cmp'.pc \in {"loop", "raised"}
                /\ cmp.amt_file_read > 0
                /\ cmp'.filepos = cmp.filepos + cmp.amt_file_read]_vars
    /\ [](cmp.pc = "loop" => \A f \in Pending : cmp.filepos <= Len(Data(f)))
    /\ [](\A f \in Range(cmp.filelist) : cmp.npass <= Len(Data(f)) + 1)

\* C10 witness: a second pass is about to start at the very end of the pending files
C10_Witness ==
    /\ cmp.pc = "loop"
    /\ cmp.npass = 2
    /\ Pending # {}
    /\ \A f \in Pending : cmp.filepos = Len(Data(f))

Exited == cmp.pc \in {"done", "ids", "raised", "interrupted", "failed"}

\* C11: on every way out of compare_file_group (the return, KeyboardInterrupt
\* while the handles are opened or during a pass, the budget exception, another
\* exception during a pass) no handle the function opened is still open.
C11_HandlesClosedOnExit ==
    /\ cmp.fh_open \subseteq Range(cmp.filelist)
    /\ Exited => cmp.fh_open = {}

\* C11 witness: the interrupt came in the second pass over held handles
C11_Witness ==
    /\ cmp.pc = "interrupted"
    /\ cmp.npass = 2
    /\ Len(cmp.open_filehandles) >= 2
    /\ cmp.fh_open = {}

\* C12: there are never more than MAX_FILES_OPEN handles open at one time:
\* handles stay open between passes only for a bucket of fewer files than
\* MAX_FILES_OPEN; for any other bucket, one of exactly MAX_FILES_OPEN files
\* included, a pass opens, reads and closes the files one at a time.
C12_OpenHandlesWithinCeiling ==
    /\ Cardinality(cmp.fh_open) <= cmp.peak
    /\ cmp.peak <= MAX_FILES_OPEN
    /\ cmp.fh_open # {} => Len(cmp.filelist) < MAX_FILES_OPEN
    /\ Len(cmp.filelist) >= MAX_FILES_OPEN =>
           /\ cmp.open_filehandles = <<>>
           /\ cmp.fh_open = {}
           /\ cmp.peak <= 1
           /\ cmp.reads <= cmp.opens

\* C12 witness: a bucket of MAX_FILES_OPEN files went through two passes
C12_Witness ==
    /\ cmp.pc = "done"
    /\ Len(cmp.filelist) = MAX_FILES_OPEN
    /\ cmp.npass >= 2
    /\ cmp.peak = 1
    /\ cmp.opens > MAX_FILES_OPEN

\* C13 (as claimed): in every pass, the first one included, the members of each
\* pending group times the chunk size asked for stay within MEM_TO_USE.
C13_GroupBytesWithinBudget ==
    cmp.pc = "loop" =>
        \A k \in DOMAIN cmp.filelist_groups_next :
            Len(cmp.filelist_groups_next[k]) * cmp.amt_file_read <= MEM_TO_USE

\* the files of the bucket recorded as unreadable
Failed == Range(Paths(cmp.unproc_files))

\* every file of the bucket that was to fail has failed
AllFailuresHappened == \A f \in Range(cmp.filelist) : fs[f].fails => f \in Failed

\* the member sets of the groups
GroupSets(dgs) == {Range(dgs[k][2]) : k \in DOMAIN dgs}

\* the call on the bucket without the files that failed
WithoutFailed == compare_file_group(SelectSeq(cmp.filelist, LAMBDA f : f \notin Failed))

\* C15: an OSError of an open or a read ends neither the call nor the run: the
\* file is recorded once as unreadable and is in no list, the call returns, and
\* the other files are unique or grouped exactly as a bucket without the failed
\* files leaves them; the call raises only where it does without those files.
C15_ReadErrorOnlyDropsTheFile ==
    (Failed # {} /\ AllFailuresHappened) =>
        /\ \A f \in Failed :
               /\ Len(SelectSeq(cmp.unproc_files, LAMBDA u : u[1] = f)) = 1
               /\ f \notin Range(cmp.unique_files)
               /\ f \notin Range(Members(cmp.dup_groups))
               /\ \A k \in DOMAIN cmp.filelist_groups_next :
                      f \notin Range(cmp.filelist_groups_next[k])
        /\ cmp.pc \in {"done", "ids"} =>
               /\ WithoutFailed.pc = "done"
               /\ Range(cmp.unique_files) = Range(WithoutFailed.unique_files)
               /\ GroupSets(cmp.dup_groups) = GroupSets(WithoutFailed.dup_groups)
        /\ cmp.pc = "raised" => WithoutFailed.pc = "raised"

\* C15 witness: a file failed in the second pass, the call returned, and the
\* others ended as two duplicates and one unique file
C15_Witness ==
    /\ cmp.pc = "done"
    /\ \E f \in Failed : fs[f].failAt = 2
    /\ Len(cmp.filelist) = 4
    /\ Len(cmp.unique_files) = 1
    /\ Len(cmp.dup_groups) = 1

\* the step is a pass of the loop that ran to its end
IsPass == cmp.pc = "loop" /\ cmp'.npass = cmp.npass + 1 /\ cmp'.pc \in {"loop", "raised", "done"}

\* the pass of the step has emitted a unique file, a final duplicate group or
\* an unreadable file
PassResolved ==
    \/ Len(cmp'.unique_files) > Len(cmp.unique_files)
    \/ Len(cmp'.dup_groups) > Len(cmp.dup_groups)
    \/ Len(cmp'.unproc_files) > Len(cmp.unproc_files)

\* every group pending after the pass is part of exactly one group pending before
PassRefines ==
    \A j \in DOMAIN cmp'.filelist_groups_next :
        Cardinality({k \in DOMAIN cmp.filelist_groups_next :
                        Range(cmp'.filelist_groups_next[j])
                            \subseteq Range(cmp.filelist_groups_next[k])}) = 1

\* C21 as stated: every pass resolves at least one group or leaves strictly
\* fewer pending members than it started with, and each group pending after a
\* pass is a subset of exactly one group pending before it.
C21_PassResolvesOrShrinks ==
    [][IsPass =>
          /\ PassResolved \/ Cardinality(Pending') < Cardinality(Pending)
          /\ PassRefines]_vars

\* C21, amended: every pass resolves at least one group, or leaves strictly
\* fewer pending members than it started with, or carries all its pending
\* members on at an offset that is larger by the positive chunk it read; each
\* group pending after a pass is a subset of exactly one group pending before
\* it, so the pending set only shrinks.
C21_PassResolvesShrinksOrAdvances ==
    [][IsPass =>
          /\ \/ PassResolved
             \/ Cardinality(Pending') < Cardinality(Pending)
             \/ /\ Pending' = Pending
                /\ cmp.amt_file_read > 0
                /\ cmp'.filepos = cmp.filepos + cmp.amt_file_read
          /\ PassRefines
          /\ Pending' \subseteq Pending]_vars

\* C21 witness: the first pass has split the bucket into two groups, which go
\* on to the second pass, and has resolved nothing
C21_Witness ==
    /\ cmp.pc = "loop"
    /\ cmp.npass = 1
    /\ Len(cmp.filelist_groups_next) = 2
    /\ Pending = Range(cmp.filelist)
    /\ cmp.unique_files = <<>> /\ cmp.dup_groups = <<>> /\ cmp.unproc_files = <<>>

\* the chunk the pass of the step reads of file f
PassChunk(f) == Chunk(Data(f), cmp.filepos, cmp.amt_file_read)

\* the members of pending group k that the pass of the step reads and that
\* agree with f on the chunk
SubGroup(k, f) ==
    {h \in Range(cmp.filelist_groups_next[k]) :
        ~ReadFails(h, cmp.npass + 1) /\ PassChunk(h) = PassChunk(f)}

\* C22: a sub-group of two or more members is made a duplicate group, whole
\* and as one group, in the pass in which fewer bytes are left to read than the
\* chunk asks for, and is carried to the next pass, whole and as one group,
\* otherwise.  So files whose length is the offset plus the chunk are carried,
\* and the pass that then starts at their end reads nothing and makes the
\* duplicate group of them; files of length 0 are one duplicate group after
\* the first pass.
C22_FinalExactlyOnShortRead ==
    [][IsPass =>
          \A k \in DOMAIN cmp.filelist_groups_next :
              \A f \in Range(cmp.filelist_groups_next[k]) :
                  LET sub == SubGroup(k, f)
                      left == Len(Data(f)) - cmp.filepos
                  IN  (f \in sub /\ Cardinality(sub) >= 2) =>
                          /\ left >= 0
                          /\ IF left < cmp.amt_file_read
                             THEN /\ \E j \in DOMAIN cmp'.dup_groups :
                                         /\ j > Len(cmp.dup_groups)
                                         /\ Range(cmp'.dup_groups[j][2]) = sub
                                  /\ sub \cap Pending' = {}
                             ELSE /\ \E j \in DOMAIN cmp'.filelist_groups_next :
                                         Range(cmp'.filelist_groups_next[j]) = sub
                                  /\ sub \cap Range(Members(cmp'.dup_groups)) = {}
                          /\ left = 0 =>
                                 sub = {h \in Range(cmp.filelist_groups_next[k]) :
                                           ~ReadFails(h, cmp.npass + 1)}
                          /\ sub \cap Range(cmp'.unique_files) = {}]_vars

\* C22 witness: three equal files as long as the first chunk; the second pass
\* has read nothing and made one duplicate group of the three
C22_Witness ==
    /\ cmp.pc = "done"
    /\ cmp.npass = 2
    /\ \A f \in Range(cmp.filelist) : Len(Data(f)) = FIRST_CHUNK
    /\ Len(cmp.dup_groups) = 1
    /\ Len(cmp.dup_groups[1][2]) = 3

\* the members that have been given their final place
Finalized ==
    Range(cmp.unique_files) \cup Range(Members(cmp.dup_groups))
        \cup Range(Paths(cmp.unproc_files))

\* C23: a member that is read becomes unique in the pass, and only in the pass,
\* whose chunk sets it apart from every other member of its group that is read;
\* it is then pending no more.  The passes read the pending members only, and
\* no pending member is finalized, so a finalized member is not read again.
\* Two readable files that differ within the first chunk are both unique after
\* one pass in which each was read once.
C23_UniqueAtFirstDifference ==
    /\ [][IsPass =>
             \A k \in DOMAIN cmp.filelist_groups_next :
                 \A f \in Range(cmp.filelist_groups_next[k]) :
                     ~ReadFails(f, cmp.npass + 1) =>
                         /\ f \in Range(cmp'.unique_files) <=> SubGroup(k, f) = {f}
                         /\ SubGroup(k, f) = {f} => f \notin Pending']_vars
    /\ [][IsPass =>
             cmp'.reads <= cmp.reads + Cardinality(Pending)]_vars
    /\ [](cmp.pc = "loop" => Pending \cap Finalized = {})
    /\ []((/\ Returned
           /\ Len(cmp.filelist) = 2
           /\ \A f \in Range(cmp.filelist) : ~fs[f].fails
           /\ Chunk(Data(cmp.filelist[1]), 0, FIRST_CHUNK)
                  # Chunk(Data(cmp.filelist[2]), 0, FIRST_CHUNK))
          => /\ Range(cmp.unique_files) = Range(cmp.filelist)
             /\ cmp.npass = 1
             /\ cmp.reads = 2)

\* C23 witness: of three files one differs in the first chunk and is unique
\* after the first pass; the second pass has read only the other two
C23_Witness ==
    /\ cmp.pc = "done"
    /\ cmp.npass = 2
    /\ Len(cmp.filelist) = 3
    /\ Len(cmp.unique_files) = 1
    /\ Len(cmp.hist[2].groups) = 1
    /\ cmp.unique_files[1] \notin Range(cmp.hist[2].groups[1])
    /\ cmp.reads = 5

(***************************************************************************)
(* Properties of the pipeline (Spec).                                      *)
(***************************************************************************)
Final == pc = "report"

\* hash_files_by_size has made the catalog
CatalogDone == filetree.keys # <<>>

AfterCheck == pc \in {"create_file_ids2", "recurse_analyze_filetree2", "report"}

\* the directories above path f, master_root included
Ancestors(f) == {SubSeq(f, 1, k) : k \in 0..(Len(f) - 1)}

\* the directories of the tree
TreeDirs == UNION {Ancestors(f) : f \in Range(filetree.keys)}

\* the signature recurse_subtree gives directory d in the tree as it is now
Sig(d) == recurse_subtree(d, filetree, <<>>, fileblocks).hier_id_str

InUnknown(d) == WithSep(d) \in Range(unknown_dirs)

InUnique(d) == WithSep(d) \in Range(unique_dirs) \cup Range(unique_files)

DupGroupsOf(x) == {k \in DOMAIN dup_groups : x \in Range(dup_groups[k][2])}

InDup(d) == DupGroupsOf(WithSep(d)) # {}

Tagged(f, tag) == <<f, tag>> \in Range(unproc_files)

\* the regular files the catalog holds
Cataloged == {filemodtimes[k][1] : k \in DOMAIN filemodtimes}

\* C3: a file whose open or read failed during the comparison keeps -1 in the
\* tree, and after fingerprinting its parent and every directory above it, up to
\* the root of the tree, is unknown and neither unique nor in a duplicate group.
C3_ReadFailureMakesAncestorsUnknown ==
    \A f \in Cataloged :
        Tagged(f, "OSError") =>
            /\ filetree.id[f] = -1
            /\ Final => \A d \in Ancestors(f) :
                            InUnknown(d) /\ ~InUnique(d) /\ ~InDup(d)

\* C3 witness: A/f1 could not be read, and apart from it A matches B file by file
C3_Witness ==
    /\ Final
    /\ Tagged(<<"A", "f1">>, "OSError")
    /\ Data(<<"A", "f1">>) = Data(<<"B", "f1">>)
    /\ Data(<<"A", "f2">>) = Data(<<"B", "f2">>)
    /\ InUnknown(<<"A">>) /\ InUnknown(master_root)

\* C4 (as claimed): an entry whose stat fails at catalog time is recorded as
\* unreadable and every directory above it ends unknown, neither unique nor
\* duplicate.
C4_StatFailureMakesAncestorsUnknown ==
    \A p \in DOMAIN fs :
        (~fs[p].stat_ok /\ CatalogDone) =>
            /\ Tagged(p, "OSError")
            /\ p \notin Range(filetree.keys)
            /\ Final => \A d \in Ancestors(p) :
                            InUnknown(d) /\ ~InUnique(d) /\ ~InDup(d)

\* the tags of the entries that are skipped without being an error
SkipTags == {"ignore_files", "symlink", "fifo", "socket"}

Skipped == {p \in DOMAIN fs : \E t \in SkipTags : Tagged(p, t)}

\* the contents of the two files of directory d, as a bag
ContentBag(d) ==
    LET a == Data(Append(d, "f1"))
        b == Data(Append(d, "f2"))
    IN  IF a = b THEN {<<a, 2>>} ELSE {<<a, 1>>, <<b, 1>>}

NoFault(f) == ~fs[f].touched /\ ~Tagged(f, "OSError") /\ ~Tagged(f, "changed")

\* C5: an ignored file, symbolic link, fifo or socket is never put into the tree,
\* a size bucket or the modification times; a directory that holds one is
\* classified by its regular files alone: it is unknown only for a fault of a
\* regular file, and with the same contents as another directory it is in one
\* duplicate group with it.
C5_SkippedEntriesLeaveNoTrace ==
    /\ \A p \in DOMAIN fs :
           (CatalogDone /\ fs[p].stat_ok
              /\ (Basename(p) \in IGNORE_FILES \/ fs[p].mode # "reg")) =>
               /\ p \in Skipped
               /\ p \notin Range(filetree.keys)
               /\ p \notin Cataloged
               /\ \A k \in DOMAIN file_size_hash : p \notin Range(file_size_hash[k][2])
    /\ (Final /\ Skipped # {}) =>
           /\ (\A f \in TreeFiles : f[1] = "A" => NoFault(f)) => ~InUnknown(<<"A">>)
           /\ ((\A f \in TreeFiles : NoFault(f)) /\ ContentBag(<<"A">>) = ContentBag(<<"B">>))
                  => DupGroupsOf(WithSep(<<"A">>)) \cap DupGroupsOf(WithSep(<<"B">>)) # {}

\* C5 witness: A holds a fifo besides the same two files as B, and A and B are
\* reported as duplicates
C5_Witness ==
    /\ Final
    /\ Tagged(<<"A", "x">>, "fifo")
    /\ Data(<<"A", "f1">>) # Data(<<"A", "f2">>)
    /\ DupGroupsOf(WithSep(<<"A">>)) \cap DupGroupsOf(WithSep(<<"B">>)) # {}

\* the signatures of the children of directory d, in the order of the dict
ChildSigs(d) ==
    LET keys == Keys(filetree, d)
    IN  [k \in 1..Len(keys) |->
            IF IsDir(filetree, Append(d, keys[k])) THEN Sig(Append(d, keys[k]))
            ELSE Str(filetree.id[Append(d, keys[k])])]

\* a sequence as a bag: each element with the number of times it occurs
BagOf(s) == {<<x, Cardinality({i \in DOMAIN s : s[i] = x})>> : x \in Range(s)}

\* C6: two directories without unknown child whose child signatures are the same
\* multiset get the same signature, whatever the order and the names of the
\* children, and are in one duplicate-directory group.
C6_SignatureOfMultiset ==
    Final =>
        \A d1, d2 \in TreeDirs :
            (/\ d1 # d2
             /\ Unknown \notin Range(ChildSigs(d1))
             /\ BagOf(ChildSigs(d1)) = BagOf(ChildSigs(d2))) =>
                /\ Sig(d1) = Sig(d2)
                /\ DupGroupsOf(WithSep(d1)) \cap DupGroupsOf(WithSep(d2)) # {}

\* C6 witness: A and B hold the same two contents under swapped names, so their
\* child signatures come in different orders
C6_Witness ==
    /\ Final
    /\ ChildSigs(<<"A">>) # ChildSigs(<<"B">>)
    /\ BagOf(ChildSigs(<<"A">>)) = BagOf(ChildSigs(<<"B">>))
    /\ Unknown \notin Range(ChildSigs(<<"A">>))
    /\ DupGroupsOf(WithSep(<<"A">>)) \cap DupGroupsOf(WithSep(<<"B">>)) # {}

\* the number of places of sequence s that hold x
Count(s, x) == Cardinality({i \in DOMAIN s : s[i] = x})

\* the groups of dup_groups whose members are directories
DirGroups == {k \in DOMAIN dup_groups : dup_groups[k][2] # <<>>
                                        /\ Basename(dup_groups[k][2][1]) = ""}

\* C7: after recurse_analyze_filetree every directory of the tree is in exactly
\* one of the unknown directories (those with signature "-1"), the unique
\* directories (signature of no other directory) and one duplicate group (all
\* the directories of one known signature, at least two).
C7_DirectoriesPartitioned ==
    Final =>
        /\ \A d \in TreeDirs :
            LET same == {e \in TreeDirs : Sig(e) = Sig(d)}
                inUnknown == Count(unknown_dirs, WithSep(d))
                inUnique == Count(unique_dirs, WithSep(d))
                inDups == Count(Members(dup_groups), WithSep(d))
            IN  /\ inUnknown + inUnique + inDups = 1
                /\ inUnknown = 1 <=> Sig(d) = Unknown
                /\ inUnique = 1 <=> (Sig(d) # Unknown /\ same = {d})
                /\ inDups = 1 <=> (Sig(d) # Unknown /\ same # {d})
                /\ \A k \in DupGroupsOf(WithSep(d)) :
                       Range(dup_groups[k][2]) = {WithSep(e) : e \in same}
        /\ \A k \in DirGroups : Len(dup_groups[k][2]) >= 2
        /\ \A x \in Range(unknown_dirs) \cup Range(unique_dirs) \cup
                    UNION {Range(dup_groups[k][2]) : k \in DirGroups} :
               \E d \in TreeDirs : x = WithSep(d)

\* C7 witness: two directories are unknown and the third is unique
C7_Witness ==
    /\ Final
    /\ Len(unknown_dirs) = 2
    /\ Len(unique_dirs) = 1

\* C8: after check_files_for_changes a cataloged file whose modification time
\* moved is in no unique list and no duplicate group, is tagged "changed" and has
\* -1 in the tree, and after fingerprinting every directory above it is unknown;
\* the check leaves the tree entry and the memberships of every other file alone.
C8_ChangedFilesInvalidated ==
    /\ [](AfterCheck =>
            \A f \in Cataloged :
                fs[f].touched =>
                    /\ f \notin Range(unique_files)
                    /\ DupGroupsOf(f) = {}
                    /\ Tagged(f, "changed")
                    /\ filetree.id[f] = -1
                    /\ Final => \A d \in Ancestors(f) :
                                    InUnknown(d) /\ ~InUnique(d) /\ ~InDup(d))
    /\ [][pc = "check_files_for_changes" =>
            \A f \in Cataloged :
                ~fs[f].touched =>
                    /\ filetree'.id[f] = filetree.id[f]
                    /\ Count(unique_files', f) = Count(unique_files, f)
                    /\ Count(Members(dup_groups'), f) = Count(Members(dup_groups), f)
                    /\ ~Tagged(f, "changed")']_vars

\* C8 witness: a file that the comparison put into a duplicate group has changed
C8_Witness ==
    /\ pc = "create_file_ids2"
    /\ \E f \in Cataloged :
           /\ fs[f].touched /\ ~fs[f].fails
           /\ \E g \in Cataloged \ {f} : Data(g) = Data(f) /\ NoFault(g)
           /\ Tagged(f, "changed")

\* the members of the largest of the groups
MaxCard(groups) == MaxIn({Len(groups[k]) : k \in DOMAIN groups})

NoClassification ==
    /\ unique_files = <<>> /\ dup_groups = <<>>
    /\ unique_dirs = <<>> /\ unknown_dirs = <<>>
    /\ \A f \in Range(filetree.keys) : filetree.id[f] = -1

RECURSIVE SumBlocks(_)
SumBlocks(S) ==
    IF S = {} THEN 0
    ELSE LET p == CHOOSE q \in S : TRUE IN fileblocks[p] + SumBlocks(S \ {p})

\* the entries directly in directory d for which a block count is stored: its
\* tree children and its ignored-name and symlink entries
StoredIn(d) == {p \in DOMAIN fileblocks : Len(p) = Len(d) + 1 /\ Dirname(p) = d}

\* C16: after fingerprinting, the block total of a directory is the sum of the
\* block counts of its tree children and of the ignored-name and symlink
\* entries it directly contains.
C16_DirBlocksIncludeSkippedEntries ==
    Final => \A d \in TreeDirs : fileblocks[d] = SumBlocks(StoredIn(d))


\* the orders in which the buckets of file_size_hash can be taken
BucketOrders == {q \in [DOMAIN file_size_hash -> DOMAIN file_size_hash] :
                    Range(q) = DOMAIN file_size_hash}

RECURSIVE ResolveIn(_, _, _, _)
\* compare_files on the buckets fsh taken in order q, from place k on; acc is
\* [unique_files, dup_groups, unproc_files, raised]
ResolveIn(fsh, q, k, acc) ==
    IF k > Len(q) THEN acc
    ELSE LET r == compare_file_group(fsh[q[k]][2])
         IN  IF r.pc = "raised" THEN [acc EXCEPT !.raised = TRUE]
             ELSE ResolveIn(fsh, q, k + 1,
                            [acc EXCEPT !.unique_files = @ \o r.unique_files,
                                        !.dup_groups = @ \o r.dup_groups,
                                        !.unproc_files = @ \o r.unproc_files])

\* a classification without its orders: the duplicate file groups, the unique
\* files, the unprocessed records and the duplicate, unique and unknown
\* directories, each as a set
AsSets(dgs, uf, up, ddirs, udirs, kdirs) ==
    [dup_groups   |-> GroupSets(dgs),
     unique_files |-> Range(uf),
     unproc_files |-> Range(up),
     dup_dirs     |-> GroupSets(ddirs),
     unique_dirs  |-> Range(udirs),
     unknown_dirs |-> Range(kdirs)]

\* the classification the pipeline reaches from the catalog cat when the
\* buckets are resolved in order q
RunFrom(cat, root, q) ==
    LET res == ResolveIn(cat.file_size_hash, q, 1,
                         [unique_files |-> <<>>, dup_groups |-> <<>>,
                          unproc_files |-> cat.unproc_files, raised |-> FALSE])
        st == CheckChanges([filetree |-> cat.filetree,
                            unproc_files |-> res.unproc_files,
                            unique_files |-> res.unique_files,
                            dup_groups |-> res.dup_groups],
                           cat.filemodtimes, 1)
        ft == create_file_ids(st.dup_groups, st.unique_files, st.filetree)
        r == recurse_analyze_filetree(ft, root, cat.fileblocks)
    IN  AsSets(st.dup_groups, st.unique_files, st.unproc_files,
               r.dup_dirs, r.unique_dirs, r.unknown_dirs)

\* the catalog of a run that walks the search paths sps
CatalogOf(sps) ==
    WalkFiles([fileblocks |-> <<>>, unproc_files |-> <<>>, filetree |-> EmptyTree,
               file_size_hash |-> <<>>, filemodtimes |-> <<>>], WalkOf(sps), 1)

\* the classification of the run in hand when its buckets are taken in order q
ClassifiedIn(q) == RunFrom(CatalogOf(dup_find.searchpaths), dup_find.master_root, q)

\* the duplicate groups of directories: those whose members end in the separator
DirGroupsOf(dgs) == SelectSeq(dgs, LAMBDA g : \A k \in DOMAIN g[2] : Basename(g[2][k]) = "")

\* C17: the classification the run has reached at the report is the one the
\* pipeline reaches for every order in which the buckets are resolved and
\* merged: the same sets of duplicate file groups, unique files, unprocessed
\* records and duplicate, unique and unknown directories.
C17_BucketOrderDoesNotMatter ==
    Final => \A q \in BucketOrders :
                 ClassifiedIn(q) =
                     AsSets(SelectSeq(dup_groups, LAMBDA g : g \notin Range(DirGroupsOf(dup_groups))),
                            unique_files, unproc_files,
                            DirGroupsOf(dup_groups), unique_dirs, unknown_dirs)

\* C17 witness: two buckets, the order of which decides the ContentIDs, with
\* unique files in both and a duplicate group
C17_Witness ==
    /\ Final
    /\ Len(file_size_hash) = 2
    /\ \A k \in 1..2 : \E f \in Range(file_size_hash[k][2]) : f \in Range(unique_files)
    /\ DirGroupsOf(dup_groups) # dup_groups


\* the classification the run has reached
Reached ==
    AsSets(SelectSeq(dup_groups, LAMBDA g : g \notin Range(DirGroupsOf(dup_groups))),
           unique_files, unproc_files, DirGroupsOf(dup_groups), unique_dirs, unknown_dirs)

\* no file of the tree is modified while the program runs
Unchanged == \A f \in DOMAIN fs : ~fs[f].touched

\* the classification of another run with the same arguments on the same tree,
\* in which list(set(...)) has left the search paths as in d
SecondRun(d) ==
    LET cat == CatalogOf(d.searchpaths)
    IN  RunFrom(cat, d.master_root, [k \in DOMAIN cat.file_size_hash |-> k])

\* C18: on a tree that does not change, the classification the run has reached
\* at the report is the one every run with the same search roots reaches on the
\* same tree, in whatever order that run meets the search paths: the same
\* duplicate groups, unique files and directories, unprocessed records and
\* unknown directories.
C18_RerunGivesSameClassification ==
    (Final /\ Unchanged) => \A d \in process_searchpaths(argv) : SecondRun(d) = Reached

\* C18 witness: a run over B then A, which the other order of the search paths
\* catalogs differently, with a duplicate group, a unique file and an unreadable one
C18_Witness ==
    /\ Final
    /\ Unchanged
    /\ dup_find.searchpaths = <<<<"B">>, <<"A">>>>
    /\ CatalogOf(<<<<"A">>, <<"B">>>>).file_size_hash # file_size_hash
    /\ Reached.dup_groups # {}
    /\ Reached.unique_files # {}
    /\ Reached.unknown_dirs # {}


\* the search paths the constructor was given, made absolute
Given == {realpath(argv[i]) : i \in DOMAIN argv}

\* the lowest common ancestor of the paths of S
LowestCommonAncestor(S) ==
    LET p == CHOOSE q \in S : TRUE
        common == {k \in 0..Len(p) : \A q \in S : IsPrefix(SubSeq(p, 1, k), q)}
    IN  SubSeq(p, 1, CHOOSE k \in common : \A j \in common : j <= k)

\* C19: whatever raw search paths are given and in whatever order they are
\* gone through, _process_searchpaths leaves absolute paths, each once, none of
\* them inside another one that is left: exactly the given paths that lie
\* inside no other given path; master_root is their lowest common ancestor.
C19_SearchpathsDedupedAndNotNested ==
    pc = "hash_files_by_size" =>
        LET sps == dup_find.searchpaths
        IN  /\ \A i, j \in DOMAIN sps : i # j => sps[i] # sps[j]
            /\ \A i \in DOMAIN sps : "." \notin Range(sps[i])
            /\ \A i, j \in DOMAIN sps : ~Nested(sps[i], sps[j])
            /\ Range(sps) = {p \in Given : \A q \in Given : ~Nested(p, q)}
            /\ dup_find.master_root = LowestCommonAncestor(Range(sps))


\* a search path of the command line does not exist
MissingPath == \E i \in DOMAIN argv : ~Exists(argv[i])

Phases == <<"main">> \o analyze \o <<"report">>

\* the directories for which recurse_subtree has made a signature, one entry for
\* each time it has put one into dir_dict
Signed ==
    unknown_dirs \o unique_dirs \o Members(DirGroupsOf(SelectSeq(dup_groups, LAMBDA g : g[2] # <<>>)))

\* C24: the phases follow one another in the order catalog, resolve, change
\* detection, ContentID assignment, fingerprinting; until the fingerprinting
\* step, which comes after check_files_for_changes, no directory has a signature
\* or a block total; after it every directory of the tree has been signed exactly
\* once; and after create_file_ids a file recorded as changed or as unreadable
\* still has -1 in the tree.
C24_PhasesInOrder ==
    /\ [][pc' # pc =>
             \/ \E k \in 1..(Len(Phases) - 1) : pc = Phases[k] /\ pc' = Phases[k + 1]
             \/ pc' = "exited"
             \/ pc = "compare_files" /\ pc' = "aborted"]_vars
    /\ [](pc \in Range(Phases) \ {"report"} =>
             /\ Signed = <<>>
             /\ \A d \in TreeDirs : d \notin DOMAIN fileblocks)
    /\ [](Final => \A d \in TreeDirs : Count(Signed, WithSep(d)) = 1)
    /\ [](pc \in {"recurse_analyze_filetree2", "report"} =>
             \A f \in Cataloged :
                 (Tagged(f, "changed") \/ Tagged(f, "OSError")) => filetree.id[f] = -1)

\* C24 witness: the report is reached with one file found changed after it had
\* been put into a duplicate group, and every other file has its ContentID
C24_Witness ==
    /\ Final
    /\ \E f \in Cataloged :
           /\ Tagged(f, "changed")
           /\ filetree.id[f] = -1
           /\ \A g \in Cataloged \ {f} : filetree.id[g] >= 0
           /\ \E g \in Cataloged \ {f} : Data(g) = Data(f) /\ ~fs[f].fails


\* the entries of the tree that check_stat_file classifies as regular files
RegularEntries ==
    {p \in DOMAIN fs : fs[p].stat_ok /\ fs[p].mode = "reg" /\ Basename(p) \notin IGNORE_FILES}

\* the buckets that hold path p
BucketsOf(p) == {k \in DOMAIN file_size_hash : p \in Range(file_size_hash[k][2])}

\* C25: once hash_files_by_size has made the catalog, the paths in the size
\* buckets, the keys of the modification times and the files of the tree are the
\* same set, the entries classified as regular files; each is in exactly one
\* bucket, the one of its byte size, and has -1 in the tree until the ids are
\* given; every other entry has an unprocessed record and is in none of the three.
C25_CatalogHoldsExactlyRegularFiles ==
    CatalogDone =>
        /\ UNION {Range(file_size_hash[k][2]) : k \in DOMAIN file_size_hash} = RegularEntries
        /\ Cataloged = RegularEntries
        /\ Range(filetree.keys) = RegularEntries
        /\ \A k1, k2 \in DOMAIN file_size_hash :
               k1 # k2 => file_size_hash[k1][1] # file_size_hash[k2][1]
        /\ \A p \in RegularEntries :
               /\ Cardinality(BucketsOf(p)) = 1
               /\ \A k \in BucketsOf(p) : file_size_hash[k][1] = Len(Data(p))
               /\ pc \in {"compare_files", "check_files_for_changes", "create_file_ids2"}
                      => filetree.id[p] = -1
               /\ pc = "compare_files" /\ bucket_i = 0 => \A u \in Range(unproc_files) : u[1] # p
        /\ \A p \in DOMAIN fs \ RegularEntries :
               /\ Count(Paths(unproc_files), p) = 1
               /\ BucketsOf(p) = {}
               /\ p \notin Cataloged
               /\ p \notin Range(filetree.keys)

\* C25 witness: the catalog is made of a tree with files of two sizes and a socket
C25_Witness ==
    /\ pc = "compare_files"
    /\ bucket_i = 0
    /\ Len(file_size_hash) = 2
    /\ Tagged(<<"A", "x">>, "socket")


\* the groups of dup_groups whose members are files
FileGroups == DOMAIN dup_groups \ DirGroups

\* C26: after check_files_for_changes every duplicate group of files has at
\* least two members.
C26_DupFileGroupsHaveTwoMembers ==
    AfterCheck => \A k \in FileGroups : Len(dup_groups[k][2]) >= 2


\* directory d is a search root or lies below one
UnderSearchRoot(d) == \E i \in DOMAIN dup_find.searchpaths : IsPrefix(dup_find.searchpaths[i], d)

\* C27: every directory among the unknown, the unique and the duplicate
\* directories is a search root or lies below one; master_root and the
\* directories between it and the search roots are in none of those lists.
C27_OnlySearchedDirectoriesClassified ==
    Final => \A x \in Range(Signed) : \E d \in TreeDirs : x = WithSep(d) /\ UnderSearchRoot(d)


(***************************************************************************)
(* The directory signatures on their own (SpecSig): recurse_subtree signs  *)
(* one directory after another, every directory after its children, and    *)
(* files in dirdict each signature with the directories that have it.      *)
(***************************************************************************)
MaxDirs == 3
MaxChildren == 2

\* str(subtree[key]) of a file: the ids create_file_ids hands out, and -1
FileItems == {Str(-1), Str(1), Str(11)}

\* the signatures recurse_subtree has returned so far
DirItems == {dirdict[k][1] : k \in DOMAIN dirdict}

\* the itemlists a directory signed next can have: its files' ids and the
\* signatures of directories signed before it
ItemLists == UNION {[1..n -> FileItems \cup DirItems] : n \in 1..MaxChildren}

\* the number of directories signed so far
NumSigned(dd) == Len(Members(dd))

InitSig ==
    /\ dirdict = <<>>
    /\ argv = <<>>
    /\ dup_find = NoDupFinder
    /\ status = -1
    /\ pc = "recurse_analyze_filetree"
    /\ fs = <<>>
    /\ cmp = Idle
    /\ filetree = EmptyTree
    /\ fileblocks = <<>>
    /\ file_size_hash = <<>>
    /\ filemodtimes = <<>>
    /\ unproc_files = <<>>
    /\ dup_groups = <<>>
    /\ unique_files = <<>>
    /\ unique_dirs = <<>>
    /\ unknown_dirs = <<>>
    /\ bucket_i = 0

\* lines 687-712: one directory, known by its itemlist, gets its signature and
\* is filed under it
SignDir ==
    /\ NumSigned(dirdict) < MaxDirs
    /\ \E itemlist \in ItemLists :
           dirdict' = DictAppend(dirdict, HierIdStr(itemlist), itemlist)
    /\ UNCHANGED <<fs, cmp, filetree, fileblocks, pipevars>>

NextSig == SignDir

SpecSig == InitSig /\ [][NextSig]_vars

\* C28: two directories filed under the same signature other than "-1" have the
\* same multiset of child signatures: the brackets and commas never make two
\* different multisets of children read as one string.  The children's
\* signatures are themselves filed in dirdict, so the same holds one level down.
C28_SignaturesDoNotCollide ==
    \A k \in DOMAIN dirdict :
        dirdict[k][1] # Unknown =>
            \A i, j \in DOMAIN dirdict[k][2] :
                BagOf(dirdict[k][2][i]) = BagOf(dirdict[k][2][j])

\* C28 witness: a signature other than "-1" shared by two directories whose
\* children come in different orders, one child being a directory
C28_Witness ==
    \E k \in DOMAIN dirdict :
        /\ dirdict[k][1] # Unknown
        /\ \E i, j \in DOMAIN dirdict[k][2] :
               /\ dirdict[k][2][i] # dirdict[k][2][j]
               /\ BagOf(dirdict[k][2][i]) = BagOf(dirdict[k][2][j])
               /\ Range(dirdict[k][2][i]) \cap DirItems # {}


\* the number of records entry p has at the end: its places in the unique-file
\* list, in the duplicate groups of files and in the unprocessed list
Records(p) ==
    Count(unique_files, p) + Count(Members(dup_groups), p) + Count(Paths(unproc_files), p)

\* C29: at the report every entry of the searched trees has exactly one record:
\* a regular file is once in the unique-file list, or once in one duplicate
\* group, or has one unprocessed record; every other entry has one unprocessed
\* record.  A file that could not be read and has also changed has one record.
C29_OneRecordPerEntry ==
    Final => \A p \in DOMAIN fs : Records(p) = 1


\* the frame of the same call made with the other read strategy
OtherStrategy == CompareAs(cmp.filelist, ~HoldHandles(cmp.filelist))

\* what the passes of frame c read: for each pass its chunk size and its groups
\* without the members whose open or read failed in it
ReadsOf(c) ==
    [k \in DOMAIN c.hist |->
        [amt    |-> c.hist[k].amt,
         groups |-> [g \in DOMAIN c.hist[k].groups |->
                        SelectSeq(c.hist[k].groups[g], LAMBDA f : ~ReadFails(f, k))]]]

\* the call has left the loop by its return or by the budget exception
Left == cmp.pc \in {"done", "ids", "raised"} /\ Len(cmp.filelist) > 1

\* at the start of every pass each held handle that is still pending stands at
\* filepos
HandlesAtFilepos ==
    cmp.pc = "loop" /\ cmp.open_filehandles # <<>> =>
        \A f \in Pending : cmp.fhpos[f] = cmp.filepos

\* how the call of frame c ended, what it read, pass for pass, up to which
\* offset, and the unique files and duplicate groups it has
ReadsAndClasses(c) ==
    <<c.pc = "raised", ReadsOf(c), c.filepos, c.unique_files, c.dup_groups>>

\* C30 as stated: reading from held handles and reopening with a seek to
\* filepos do the same: the held handles stand at filepos at the start of every
\* pass, and a call that has returned or raised the budget exception has read
\* the same byte ranges and has the same unique list, duplicate groups and
\* unreadable list as the call made with the other strategy on the same files
\* with the same failures.
C30_ReadStrategiesGiveSameLists ==
    /\ HandlesAtFilepos
    /\ Left => <<ReadsAndClasses(OtherStrategy), OtherStrategy.unproc_files>>
                    = <<ReadsAndClasses(cmp), cmp.unproc_files>>

\* C30 amended: as above, with the unreadable lists holding the same records,
\* each as often, in an order that may differ between the two strategies.
C30_ReadStrategiesEquivalent ==
    /\ HandlesAtFilepos
    /\ Left => <<ReadsAndClasses(OtherStrategy), BagOf(OtherStrategy.unproc_files)>>
                    = <<ReadsAndClasses(cmp), BagOf(cmp.unproc_files)>>

\* C30 witness: a bucket at the ceiling, read by reopening, that took two passes
\* and returned a unique file, a duplicate group and a file that failed in the
\* second pass, while the other strategy held handles
C30_Witness ==
    /\ cmp.pc = "done"
    /\ ~HoldHandles(cmp.filelist)
    /\ OtherStrategy.open_filehandles # <<>>
    /\ cmp.npass >= 2
    /\ cmp.unique_files # <<>>
    /\ cmp.dup_groups # <<>>
    /\ \E f \in Range(Paths(cmp.unproc_files)) : fs[f].failAt = 2

====
